---- MODULE Spec2Model ----
(***************************************************************************)
(* A model of package relax (src/client.go, src/multipart_form.go): a     *)
(* small REST client over net/http.  Go strings are modelled as finite    *)
(* sequences of lexical atoms (TLA+ strings): <<"/", "api", "/", "foo">>   *)
(* is the Go string "/api/foo", <<>> is "".  An atom is a word (letters,  *)
(* possibly with inner dots), a number (digits) or one punctuation mark.  *)
(* Concatenation is \o.  A Go error is the sequence of atoms of its       *)
(* message, and the nil error is <<>>.                                     *)
(***************************************************************************)
EXTENDS Naturals, Sequences, FiniteSets, TLC

\* ------------------------------------------------------------------ bounds
\* Longest generated base-URL string handed to the constructors.
MaxLen == 3
\* Longest generated URI handed to GetQuery.
MaxUriLen == 2
\* Latest position at which reading a response body may fail.
MaxCut == 1

\* ----------------------------------------------------------------- strings
Punct == {":", "/", "?", "#"}
Numbers == {"8080"}
IsLetters(a) == a \notin Punct /\ a \notin Numbers

NoErr == <<>>

\* strings.Index for a one-atom separator: first position of a in s, 0 if none.
Index(s, a) ==
  IF \E i \in 1..Len(s) : s[i] = a
  THEN CHOOSE i \in 1..Len(s) : s[i] = a /\ \A j \in 1..(i-1) : s[j] # a
  ELSE 0

\* strings.LastIndex for a one-atom separator.
LastIndex(s, a) ==
  IF \E i \in 1..Len(s) : s[i] = a
  THEN CHOOSE i \in 1..Len(s) : s[i] = a /\ \A j \in (i+1)..Len(s) : s[j] # a
  ELSE 0

Count(s, a) == Cardinality({i \in 1..Len(s) : s[i] = a})

Before(s, i) == SubSeq(s, 1, i - 1)
After(s, i) == SubSeq(s, i + 1, Len(s))

\* strings.Cut(s, sep), the separator found at i (0: not found).
cutAt(s, i) ==
  IF i = 0 THEN [before |-> s, after |-> <<>>, found |-> FALSE]
  ELSE [before |-> Before(s, i), after |-> After(s, i), found |-> TRUE]

\* strings.Cut(s, sep): the text before and after the first sep.
Cut(s, a) == cutAt(s, Index(s, a))

HasPrefix(s, p) == Len(s) >= Len(p) /\ SubSeq(s, 1, Len(p)) = p
HasSuffix(s, p) == Len(s) >= Len(p) /\ SubSeq(s, Len(s) - Len(p) + 1, Len(s)) = p

\* Whether sequence part occurs in s as a contiguous run.
Contains(s, part) ==
  \E i \in 0..(Len(s) - Len(part)) : SubSeq(s, i + 1, i + Len(part)) = part

\* -------------------------------------------------------------- net/url
NilURL ==
  [Scheme |-> <<>>, Opaque |-> <<>>, Host |-> <<>>, Path |-> <<>>,
   OmitHost |-> FALSE, ForceQuery |-> FALSE, RawQuery |-> <<>>, Fragment |-> <<>>]

\* The first position of rawURL that holds no letters, 0 if there is none.
firstNonLetter(rawURL) ==
  IF \A i \in 1..Len(rawURL) : IsLetters(rawURL[i]) THEN 0
  ELSE CHOOSE i \in 1..Len(rawURL) :
         ~IsLetters(rawURL[i]) /\ \A j \in 1..(i-1) : IsLetters(rawURL[j])

\* The loop of url.getScheme stopping at position i.
schemeAt(rawURL, i) ==
  IF i = 0 THEN [scheme |-> <<>>, rest |-> rawURL, err |-> NoErr]
  ELSE IF rawURL[i] = ":"
    THEN IF i = 1
         THEN [scheme |-> <<>>, rest |-> <<>>, err |-> <<"missing protocol scheme">>]
         ELSE [scheme |-> Before(rawURL, i), rest |-> After(rawURL, i), err |-> NoErr]
    ELSE [scheme |-> <<>>, rest |-> rawURL, err |-> NoErr]

\* url.getScheme: (scheme, rest) or an error.
getScheme(rawURL) == schemeAt(rawURL, firstNonLetter(rawURL))

\* url.validOptionalPort applied to the text after the last colon of the host.
validOptionalPort(port) == \A i \in 1..Len(port) : port[i] \in Numbers

\* url.parseHost with the last colon of the host at i: the host is kept with its
\* port; a non-numeric port is an error.
parseHostAt(host, i) ==
  IF i # 0 /\ ~validOptionalPort(After(host, i))
  THEN [host |-> <<>>, err |-> <<"invalid port">> \o SubSeq(host, i, Len(host)) \o <<"after host">>]
  ELSE [host |-> host, err |-> NoErr]

\* url.parseHost
parseHost(host) == parseHostAt(host, LastIndex(host, ":"))

\* url.parse setting the host: ph is what parseHost made of the authority auth.
parseAuthority(base, auth, ph) ==
  IF ph.err # NoErr THEN [url |-> NilURL, err |-> ph.err]
  ELSE [url |-> [base EXCEPT !.Host = ph.host,
                             !.Path = IF auth.found THEN <<"/">> \o auth.after ELSE <<>>],
        err |-> NoErr]

\* url.parse from the test of the first path segment on: rest is the text between
\* scheme and query, base the URL with scheme and query set.
parsePath(base, rest) ==
  IF ~HasPrefix(rest, <<"/">>) /\ base.Scheme # <<>>
    THEN [url |-> [base EXCEPT !.Opaque = rest], err |-> NoErr]
  ELSE IF ~HasPrefix(rest, <<"/">>) /\ Index(Cut(rest, "/").before, ":") # 0
    THEN [url |-> NilURL, err |-> <<"first path segment in URL cannot contain colon">>]
  ELSE IF HasPrefix(rest, <<"/", "/">>)
          /\ (base.Scheme # <<>> \/ ~HasPrefix(rest, <<"/", "/", "/">>))
    THEN parseAuthority(base, Cut(SubSeq(rest, 3, Len(rest)), "/"),
                        parseHost(Cut(SubSeq(rest, 3, Len(rest)), "/").before))
  ELSE [url |-> [base EXCEPT !.Path = rest,
                             !.OmitHost = (base.Scheme # <<>> /\ HasPrefix(rest, <<"/">>))],
        err |-> NoErr]

\* url.parse cutting the query off: a lone trailing "?" forces an empty query.
parseQuery(scheme, rest, q) ==
  IF HasSuffix(rest, <<"?">>) /\ Count(rest, "?") = 1
  THEN parsePath([NilURL EXCEPT !.Scheme = scheme, !.ForceQuery = TRUE],
                 Before(rest, Len(rest)))
  ELSE parsePath([NilURL EXCEPT !.Scheme = scheme, !.RawQuery = q.after], q.before)

\* url.parse after getScheme returned gs.
parseScheme(gs) ==
  IF gs.err # NoErr THEN [url |-> NilURL, err |-> gs.err]
  ELSE parseQuery(gs.scheme, gs.rest, Cut(gs.rest, "?"))

\* url.parse(rawURL, viaRequest = false), the part before the fragment.
parse(rawURL) == parseScheme(getScheme(rawURL))

\* url.Parse setting the fragment on what parse returned.
setFragment(p, frag) ==
  IF p.err # NoErr THEN p
  ELSE [url |-> [p.url EXCEPT !.Fragment = frag], err |-> NoErr]

\* url.Parse after the cut f at the fragment.
parseFragment(f) == setFragment(parse(f.before), f.after)

\* url.Parse: cut the fragment, parse the rest.
Parse(rawURL) == parseFragment(Cut(rawURL, "#"))

\* (*URL).IsAbs
IsAbs(u) == u.Scheme # <<>>

\* url.resolvePath without dot segments (the atoms hold none): the merged path,
\* rooted.
resolvePath(base, ref) ==
  LET full == IF ref = <<>> THEN base
              ELSE IF ref[1] # "/" THEN SubSeq(base, 1, LastIndex(base, "/")) \o ref
              ELSE ref
  IN IF full = <<>> THEN <<>>
     ELSE IF full[1] = "/" THEN full ELSE <<"/">> \o full

\* (*URL).ResolveReference
ResolveReference(u, ref) ==
  LET url == IF ref.Scheme = <<>> THEN [ref EXCEPT !.Scheme = u.Scheme] ELSE ref
  IN IF ref.Scheme # <<>> \/ ref.Host # <<>>
       THEN [url EXCEPT !.Path = resolvePath(ref.Path, <<>>)]
     ELSE IF ref.Opaque # <<>>
       THEN [url EXCEPT !.Host = <<>>, !.Path = <<>>]
     ELSE LET inherit == ref.Path = <<>> /\ ~ref.ForceQuery /\ ref.RawQuery = <<>>
              url2 == IF inherit
                      THEN [url EXCEPT !.RawQuery = u.RawQuery,
                                       !.Fragment = IF ref.Fragment = <<>> THEN u.Fragment
                                                    ELSE ref.Fragment]
                      ELSE url
          IN IF ref.Path = <<>> /\ u.Opaque # <<>>
               THEN [url2 EXCEPT !.Opaque = u.Opaque, !.Host = <<>>, !.Path = <<>>]
             ELSE [url2 EXCEPT !.Host = u.Host, !.Path = resolvePath(u.Path, ref.Path)]

\* (*URL).String.  (The "./" it puts before a first segment holding a colon applies
\* only to a URL with neither scheme nor host; the client formats resolved URLs,
\* which carry the base's scheme.)
String(u) ==
  LET scheme == IF u.Scheme # <<>> THEN u.Scheme \o <<":">> ELSE <<>>
      slashes == IF (u.Scheme # <<>> \/ u.Host # <<>>)
                    /\ ~(u.OmitHost /\ u.Host = <<>>)
                    /\ (u.Host # <<>> \/ u.Path # <<>>)
                 THEN <<"/", "/">> ELSE <<>>
      authority == IF u.Scheme # <<>> \/ u.Host # <<>> THEN slashes \o u.Host ELSE <<>>
      sep == IF u.Path # <<>> /\ u.Path[1] # "/" /\ u.Host # <<>> THEN <<"/">> ELSE <<>>
      body == IF u.Opaque # <<>> THEN u.Opaque ELSE authority \o sep \o u.Path
      query == IF u.ForceQuery \/ u.RawQuery # <<>> THEN <<"?">> \o u.RawQuery ELSE <<>>
      frag == IF u.Fragment # <<>> THEN <<"#">> \o u.Fragment ELSE <<>>
  IN scheme \o body \o query \o frag

\* -------------------------------------------------------- encoding/json
Quote == "\""
Literals == Numbers \cup {"null", "true", "false"}

\* The position after the string literal opening at i, 0 if it is not closed.
skipString(s, i) ==
  LET close == {j \in (i+1)..Len(s) : s[j] = Quote}
  IN IF i > Len(s) \/ s[i] # Quote \/ close = {} THEN 0
     ELSE (CHOOSE j \in close : \A k \in close : j <= k) + 1

RECURSIVE skipValue(_, _), skipElements(_, _), skipMembers(_, _)

\* The position after the JSON value starting at i, 0 on a syntax error
\* (the scanner of json.checkValid).
skipValue(s, i) ==
  IF i > Len(s) THEN 0
  ELSE IF s[i] = Quote THEN skipString(s, i)
  ELSE IF s[i] \in Literals THEN i + 1
  ELSE IF s[i] = "[" THEN
    IF i < Len(s) /\ s[i+1] = "]" THEN i + 2 ELSE skipElements(s, i + 1)
  ELSE IF s[i] = "{" THEN
    IF i < Len(s) /\ s[i+1] = "}" THEN i + 2 ELSE skipMembers(s, i + 1)
  ELSE 0

skipElements(s, i) ==
  LET j == skipValue(s, i)
  IN IF j = 0 \/ j > Len(s) THEN 0
     ELSE IF s[j] = "]" THEN j + 1
     ELSE IF s[j] = "," THEN skipElements(s, j + 1)
     ELSE 0

skipMembers(s, i) ==
  LET k == skipString(s, i)
      j == skipValue(s, k + 1)
  IN IF k = 0 \/ k > Len(s) \/ s[k] # ":" THEN 0
     ELSE IF j = 0 \/ j > Len(s) THEN 0
     ELSE IF s[j] = "}" THEN j + 1
     ELSE IF s[j] = "," THEN skipMembers(s, j + 1)
     ELSE 0

\* json.Valid
Valid(data) == skipValue(data, 1) = Len(data) + 1

\* Go values behind interface{}: the nil interface, a pointer, the test's
\* struct Response{Foo string}, a value json decoded on its own, and a
\* channel (which json cannot encode).
NilIface == [kind |-> "nil"]
Ref(x) == [kind |-> "ptr", elem |-> x]
ResponseStruct(foo) == [kind |-> "struct", Foo |-> foo]
PostData(name) == [kind |-> "postData", Name |-> name]
Chan == [kind |-> "chan"]
Generic(data) == [kind |-> "any", json |-> data]

\* The field names json matches to Response.Foo (exact or case-folded).
FooKeys == {<<"Foo">>, <<"foo">>}

RECURSIVE objectInto(_, _, _)
\* json's object decoder into a Response, at the key opening at i of valid data.
objectInto(s, i, v) ==
  LET k == skipString(s, i)
      key == SubSeq(s, i + 1, k - 2)
      j == skipValue(s, k + 1)
      isFoo == key \in FooKeys
      bad == isFoo /\ s[k+1] # Quote /\ s[k+1] # "null"
      v1 == IF isFoo /\ s[k+1] = Quote
            THEN [v EXCEPT !.Foo = SubSeq(s, k + 2, j - 2)] ELSE v
      rest == IF s[j] = "," THEN objectInto(s, j + 1, v1) ELSE [err |-> NoErr, v |-> v1]
  IN IF bad /\ rest.err = NoErr
     THEN [err |-> <<"json: cannot unmarshal into Go struct field Response.Foo">>, v |-> rest.v]
     ELSE rest

RECURSIVE decode(_, _)
\* json's indirect and value decoder: walk pointers down to the value to fill.
decode(data, v) ==
  IF v.kind = "ptr" THEN
    LET d == decode(data, v.elem) IN [err |-> d.err, v |-> [v EXCEPT !.elem = d.v]]
  ELSE IF v.kind = "struct" THEN
    IF data = <<"null">> \/ data = <<"{", "}">> THEN [err |-> NoErr, v |-> v]
    ELSE IF data[1] = "{" THEN objectInto(data, 2, v)
    ELSE [err |-> <<"json: cannot unmarshal into Go value of type Response">>, v |-> v]
  ELSE IF data = <<"null">> THEN [err |-> NoErr, v |-> NilIface]
  ELSE [err |-> NoErr, v |-> Generic(data)]

\* json.Unmarshal(data, v)
Unmarshal(data, v) ==
  IF ~Valid(data) THEN
    [err |-> IF data = <<>> THEN <<"unexpected end of JSON input">>
             ELSE <<"invalid character">>, v |-> v]
  ELSE IF v.kind # "ptr" THEN [err |-> <<"json: Unmarshal(non-pointer)">>, v |-> v]
  ELSE decode(data, v)

\* json.Marshal(v)
Marshal(v) ==
  IF v.kind = "nil" THEN [data |-> <<"null">>, err |-> NoErr]
  ELSE IF v.kind = "postData" THEN
    [data |-> <<"{", Quote, "Name", Quote, ":", Quote>> \o v.Name \o <<Quote, "}">>,
     err |-> NoErr]
  ELSE [data |-> <<>>, err |-> <<"json: unsupported type: chan int">>]

\* -------------------------------------------------------------- net/http
\* http.Header: a map from a header name to the list of its values.
EmptyHeader == [k \in {} |-> <<>>]
\* Header.Set
Set(h, key, value) == [k \in DOMAIN h \cup {key} |-> IF k = key THEN <<value>> ELSE h[k]]
\* Header.Add
Add(h, key, value) ==
  [k \in DOMAIN h \cup {key} |->
     IF k # key THEN h[k] ELSE IF key \in DOMAIN h THEN Append(h[key], value) ELSE <<value>>]
\* Header.Values
Values(h, key) == IF key \in DOMAIN h THEN h[key] ELSE <<>>

ValidMethods == {"GET", "POST", "PUT", "DELETE"}

NoBody == [kind |-> "none"]
BytesBody(data) == [kind |-> "bytes", data |-> data]
MultipartBody(parts, boundary) == [kind |-> "multipart", parts |-> parts, boundary |-> boundary]

NilRequest == [nil |-> TRUE]
NilResponse == [nil |-> TRUE]

\* http.NewRequest after url.Parse returned p: the method is validated; an empty
\* port is dropped from the host.
newRequest(method, p, body) ==
  IF method \notin ValidMethods
    THEN [req |-> NilRequest, err |-> <<"net/http: invalid method">>]
  ELSE IF p.err # NoErr THEN [req |-> NilRequest, err |-> p.err]
  ELSE [req |-> [Method |-> method,
                 URL |-> [p.url EXCEPT !.Host = IF HasSuffix(@, <<":">>)
                                                THEN Before(@, Len(@)) ELSE @],
                 Header |-> EmptyHeader, Body |-> body],
        err |-> NoErr]

\* http.NewRequest(method, url, body): the URL is parsed again.
NewRequest(method, url, body) == newRequest(method, Parse(url), body)

\* What the transport can do with one request: fail, or return a response whose
\* body stream delivers everything or breaks after ReadN atoms.
BodyFoo == <<"{", Quote, "Foo", Quote, ":", Quote, "bar", Quote, "}">>
BodyList == <<"[", Quote, "bar", Quote, "]">>
BodyNotFound == <<"404 page not found">>
Served == {<<200, BodyFoo>>, <<200, BodyList>>, <<404, BodyNotFound>>, <<204, <<>> >>}
Responses == {[StatusCode |-> sb[1], Body |-> sb[2]] : sb \in Served}
NetErr == <<"dial tcp: connection refused">>
\* The outcomes of an exchange alone, and of an exchange followed by the read of
\* the response body (readErr: the stream breaks after readN atoms).
ExchangeOutcomes ==
  {[err |-> NetErr, res |-> NilResponse, readErr |-> FALSE, readN |-> 0]}
  \cup {[err |-> NoErr, res |-> r, readErr |-> FALSE, readN |-> Len(r.Body)] : r \in Responses}
Outcomes ==
  ExchangeOutcomes
  \cup UNION {{[err |-> NoErr, res |-> r, readErr |-> TRUE, readN |-> n] :
                 n \in {k \in 0..MaxCut : k < Len(r.Body)}} : r \in Responses}

\* (*http.Client).Do: one exchange with the transport, whose outcome is o.
Do(r, o) ==
  [res |-> o.res, err |-> o.err,
   sent |-> <<[req |-> r, err |-> o.err, res |-> o.res, readErr |-> o.readErr,
               readN |-> o.readN]>>]

\* ioutil.ReadAll(res.Body): the bytes read, and the error that stopped the read.
ReadAll(res, o) ==
  IF o.readErr THEN [data |-> SubSeq(res.Body, 1, o.readN), err |-> <<"unexpected EOF">>]
  ELSE [data |-> res.Body, err |-> NoErr]

\* ------------------------------------------------------------ filesystem
FileA == <<"/", "tmp", "/", "a.txt">>
FileMissing == <<"/", "tmp", "/", "missing.txt">>
FileGone == <<"/", "tmp", "/", "gone.txt">>
Dir == <<"/", "tmp">>
\* os.Open succeeds on a file and on a directory.
Openable == {FileA, Dir}
\* io.Copy from a directory fails.
Readable == {FileA}
Contents(path) == <<"contents of">> \o path

\* os.Open
Open(path) ==
  IF path \in Openable THEN NoErr
  ELSE <<"open">> \o path \o <<": no such file or directory">>

\* filepath.Base
Base(path) == IF path = <<>> THEN <<".">> ELSE After(path, LastIndex(path, "/"))

\* ---------------------------------------------------------------- client
NilClient == [nil |-> TRUE]
NilBytes == [nil |-> TRUE]
Bytes(data) == [data |-> data]

\* A *Client as the constructors fill it.
newClient(url, apiKey, username, password) ==
  [url |-> url, apiKey |-> apiKey, username |-> username, password |-> password,
   LastResponse |-> NilResponse, LastBody |-> NilBytes]

\* The URL checks without the IsAbs check.
checkedAnyURL(nurl, apiKey, username, password) ==
  IF nurl.err # NoErr THEN [c |-> NilClient, err |-> nurl.err]
  ELSE [c |-> newClient(nurl.url, apiKey, username, password), err |-> NoErr]

\* The URL checks of the constructors, nurl being what url.Parse returned.
checkedURL(nurl, apiKey, username, password) ==
  IF nurl.err # NoErr THEN [c |-> NilClient, err |-> nurl.err]
  ELSE IF ~IsAbs(nurl.url) THEN [c |-> NilClient, err |-> <<"URL is not absolute">>]
  ELSE [c |-> newClient(nurl.url, apiKey, username, password), err |-> NoErr]

\* NewClient(surl, apiKey)
NewClient(surl, apiKey) ==
  IF apiKey = <<>> THEN [c |-> NilClient, err |-> <<"api key is empty">>]
  ELSE checkedURL(Parse(surl), apiKey, <<>>, <<>>)

\* NewBasicAuthClient(surl, username, password): the basic-auth constructor the
\* tests call; its code is not among the sources.
NewBasicAuthClient(surl, username, password) ==
  IF username = <<>> THEN [c |-> NilClient, err |-> <<"username is empty">>]
  ELSE IF password = <<>> THEN [c |-> NilClient, err |-> <<"password is empty">>]
  ELSE checkedURL(Parse(surl), <<>>, username, password)

\* The resolution without the IsAbs check.
resolvedAnyURI(c, nurl) ==
  IF nurl.err # NoErr THEN [query |-> <<>>, err |-> nurl.err]
  ELSE [query |-> String(ResolveReference(c.url, nurl.url)), err |-> NoErr]

\* GetQuery after url.Parse returned nurl.
resolved(c, nurl) ==
  IF nurl.err # NoErr THEN [query |-> <<>>, err |-> nurl.err]
  ELSE IF IsAbs(nurl.url) THEN [query |-> <<>>, err |-> <<"URI is not absolute">>]
  ELSE [query |-> String(ResolveReference(c.url, nurl.url)), err |-> NoErr]

\* (*Client).GetQuery(uri)
GetQuery(c, uri) == resolved(c, Parse(uri))

\* The request built for the caller's URI as it is.
requestedUnresolved(method, uri, q) ==
  IF q.err # NoErr THEN [req |-> NilRequest, err |-> q.err]
  ELSE NewRequest(method, uri, NoBody)

\* MakeRequest after GetQuery returned q for uri.
requested(method, uri, q) ==
  IF q.err # NoErr THEN [req |-> NilRequest, err |-> q.err]
  ELSE NewRequest(method, q.query, NoBody)

\* (*Client).MakeRequest(method, uri)
MakeRequest(c, method, uri) == requested(method, uri, GetQuery(c, uri))

\* The file loop of MakeMultipartRequest over the Files map in the iteration
\* order the runtime picked, from its i-th field on: the parts written, the files
\* opened so far, and the error that ended the loop.
RECURSIVE addFiles(_, _, _, _, _)
addFiles(files, order, i, parts, opened) ==
  IF i > Len(order) THEN [parts |-> parts, opened |-> opened, err |-> NoErr]
  ELSE LET field == order[i]
           file == files[field]
           oerr == Open(file)
       IN IF oerr # NoErr
            THEN [parts |-> parts, opened |-> opened,
                  err |-> <<"Error with file">> \o file \o <<",">> \o oerr]
          ELSE IF file \notin Readable
            THEN [parts |-> parts, opened |-> Append(opened, file),
                  err |-> <<"read">> \o file \o <<": is a directory">>]
          ELSE addFiles(files, order, i + 1,
                        Append(parts, [name |-> field, filename |-> Base(file),
                                       content |-> Contents(file)]),
                        Append(opened, file))

\* The field loop of MakeMultipartRequest: one form value part per text field.
RECURSIVE addFields(_, _, _, _)
addFields(fields, order, i, parts) ==
  IF i > Len(order) THEN parts
  ELSE addFields(fields, order, i + 1,
                 Append(parts, [name |-> order[i], filename |-> <<>>,
                                content |-> fields[order[i]]]))

\* Closing the files at the end of the function instead of deferring it.
CloseAtEnd(opened, err) == IF err = NoErr THEN 1..Len(opened) ELSE {}

\* The deferred f.Close() calls, run when MakeMultipartRequest returns with err:
\* the handles (positions in opened) they close.
DeferredClose(opened, err) == 1..Len(opened)

\* The boundary multipart.NewWriter generated.
Boundary == "boundary"
FormDataContentType == <<"multipart/form-data; boundary=", Boundary>>

\* What MakeMultipartRequest returns: the request, the error, the files it
\* opened, and the handles (positions in opened) its return leaves open.
closing(req, err, opened) ==
  [req |-> req, err |-> err, opened |-> opened,
   leaked |-> {i \in 1..Len(opened) : i \notin DeferredClose(opened, err)}]

\* MakeMultipartRequest after http.NewRequest returned nr.
multipartTyped(nr, opened) ==
  IF nr.err # NoErr THEN closing(NilRequest, nr.err, opened)
  ELSE closing([nr.req EXCEPT !.Header = Add(@, "Content-Type", FormDataContentType)],
               NoErr, opened)

\* MakeMultipartRequest after GetQuery returned q and the file loop returned fl.
multipartWritten(method, q, fl, fields, vorder) ==
  IF q.err # NoErr THEN closing(NilRequest, q.err, <<>>)
  ELSE IF fl.err # NoErr THEN closing(NilRequest, fl.err, fl.opened)
  ELSE multipartTyped(NewRequest(method, q.query,
                                 MultipartBody(addFields(fields, vorder, 1, fl.parts),
                                               Boundary)),
                      fl.opened)

\* (*Client).MakeMultipartRequest(method, uri, mpf); forder and vorder are the
\* orders in which the two range loops visit the Files and the Fields.
MakeMultipartRequest(c, method, uri, mpf, forder, vorder) ==
  multipartWritten(method, GetQuery(c, uri), addFiles(mpf.Files, forder, 1, <<>>, <<>>),
                   mpf.Fields, vorder)

\* The name and the value of the header GetResponse sets for the API key.
AuthHeader == "Autorization"
TokenValue(apiKey) == <<"Token token=", Quote>> \o apiKey \o <<Quote>>

\* The request after GetResponse set the header for the API key.
withToken(c, r) ==
  IF c.apiKey # <<>> THEN [r EXCEPT !.Header = Set(@, AuthHeader, TokenValue(c.apiKey))]
  ELSE r

\* GetResponse trying the exchange a second time when it fails.
recordedRetry(c, r1, d) ==
  IF d.err # NoErr
    THEN [res |-> NilResponse, err |-> d.err, c |-> c, r |-> r1, sent |-> d.sent \o d.sent]
  ELSE [res |-> d.res, err |-> NoErr, c |-> [c EXCEPT !.LastResponse = d.res],
        r |-> r1, sent |-> d.sent]

\* GetResponse recording the response before looking at the error.
recordedFirst(c, r1, d) ==
  [res |-> IF d.err # NoErr THEN NilResponse ELSE d.res, err |-> d.err,
   c |-> [c EXCEPT !.LastResponse = d.res], r |-> r1, sent |-> d.sent]

\* GetResponse after client.Do returned d for the request r1.
recorded(c, r1, d) ==
  IF d.err # NoErr
    THEN [res |-> NilResponse, err |-> d.err, c |-> c, r |-> r1, sent |-> d.sent]
  ELSE [res |-> d.res, err |-> NoErr, c |-> [c EXCEPT !.LastResponse = d.res],
        r |-> r1, sent |-> d.sent]

\* GetResponse from client.Do on: r1 is the request with its header set.
roundTrip(c, r1, o) == recorded(c, r1, Do(r1, o))

\* (*Client).GetResponse(r) when the transport answers with o: the response and
\* error returned, the client and the request (r is a pointer) afterwards, and
\* the exchanges made.
GetResponse(c, r, o) == roundTrip(c, withToken(c, r), o)

\* The decoding step returning json's own error for an undecodable body.
unmarshalledJsonError(g, rd, um, response) ==
  [err |-> um.err, c |-> [g.c EXCEPT !.LastBody = Bytes(rd.data)], r |-> g.r,
   sent |-> g.sent, response |-> um.v.elem]

\* jsonResponse after json.Unmarshal returned um.
unmarshalled(g, rd, um, response) ==
  [err |-> IF um.err # NoErr THEN <<"Invalid JSON: ">> \o rd.data ELSE NoErr,
   c |-> [g.c EXCEPT !.LastBody = Bytes(rd.data)], r |-> g.r, sent |-> g.sent,
   response |-> um.v.elem]

\* jsonResponse after ioutil.ReadAll returned rd, which is assigned to LastBody
\* before the error is tested.
bodyRead(g, rd, response) ==
  IF rd.err # NoErr
    THEN [err |-> rd.err, c |-> [g.c EXCEPT !.LastBody = Bytes(rd.data)], r |-> g.r,
          sent |-> g.sent, response |-> response]
  ELSE unmarshalled(g, rd, Unmarshal(rd.data, Ref(response)), response)

\* jsonResponse after GetResponse returned g.
answered(g, response, o) ==
  IF g.err # NoErr
    THEN [err |-> g.err, c |-> g.c, r |-> g.r, sent |-> g.sent, response |-> response]
  ELSE bodyRead(g, ReadAll(g.res, o), response)

\* (*Client).jsonResponse(req, response) when the transport answers with o.
jsonResponse(c, req, response, o) ==
  IF response = NilIface
    THEN [err |-> NoErr, c |-> c, r |-> req, sent |-> <<>>, response |-> response]
  ELSE answered(GetResponse(c, req, o), response, o)

\* What a verb returns when it fails before jsonResponse.
early(c, err, response) ==
  [err |-> err, c |-> c, r |-> NilRequest, sent |-> <<>>, response |-> Ref(response)]

\* The argument the verbs hand to jsonResponse: &response, the address of their
\* own parameter, which is never nil.
DestArg(response) == Ref(response)

\* A verb without payload after MakeRequest returned m.
fetched(c, m, response, o) ==
  IF m.err # NoErr THEN early(c, m.err, response)
  ELSE jsonResponse(c, m.req, DestArg(response), o)

\* (*Client).ReadJson(uri, response)
ReadJson(c, uri, response, o) == fetched(c, MakeRequest(c, "GET", uri), response, o)

\* (*Client).DeleteJson(uri, response)
DeleteJson(c, uri, response, o) == fetched(c, MakeRequest(c, "DELETE", uri), response, o)

\* A verb with payload after MakeRequest returned m and json.Marshal returned
\* jsonData: the body and the Content-Type the verb sets, then jsonResponse.
submitted(c, m, jsonData, contentType, response, o) ==
  IF m.err # NoErr THEN early(c, m.err, response)
  ELSE IF jsonData.err # NoErr THEN early(c, jsonData.err, response)
  ELSE jsonResponse(c, [m.req EXCEPT !.Header = Set(@, "Content-Type", contentType),
                                     !.Body = BytesBody(jsonData.data)],
                    DestArg(response), o)

\* (*Client).CreateJson(uri, data, response)
CreateJson(c, uri, data, response, o) ==
  submitted(c, MakeRequest(c, "POST", uri), Marshal(data), <<"application.json">>,
            response, o)

\* (*Client).UpdateJson(uri, data, response)
UpdateJson(c, uri, data, response, o) ==
  submitted(c, MakeRequest(c, "PUT", uri), Marshal(data), <<"application/json">>,
            response, o)

\* What PostMultipartJson returns: what jsonResponse returned, j, with the files
\* MakeMultipartRequest opened.
withFiles(j, m) ==
  [err |-> j.err, c |-> j.c, r |-> j.r, sent |-> j.sent, response |-> j.response,
   opened |-> m.opened, leaked |-> m.leaked]

\* PostMultipartJson after MakeMultipartRequest returned m.
posted(c, m, data, o) ==
  IF m.err # NoErr
    THEN [err |-> m.err, c |-> c, r |-> NilRequest, sent |-> <<>>,
          response |-> Ref(data), opened |-> m.opened, leaked |-> m.leaked]
  ELSE withFiles(jsonResponse(c, m.req, DestArg(data), o), m)

\* (*Client).PostMultipartJson(uri, mpf, data)
PostMultipartJson(c, uri, mpf, data, forder, vorder, o) ==
  posted(c, MakeMultipartRequest(c, "POST", uri, mpf, forder, vorder), data, o)

\* ------------------------------------------------------------ the callers
GoodURL == <<"https", ":", "/", "/", "ms.example.com">>
ApiKey == <<"apiKey">>
User == <<"user">>
Pass == <<"pass">>
ApiFoo == <<"/", "api", "/", "foo">>

\* All strings of at most n atoms over alphabet.
RECURSIVE StringsUpTo(_, _)
StringsUpTo(alphabet, n) ==
  IF n = 0 THEN {<<>>}
  ELSE LET shorter == StringsUpTo(alphabet, n - 1)
       IN shorter \cup {Append(x, a) : x \in {y \in shorter : Len(y) = n - 1}, a \in alphabet}

\* The base URLs handed to the constructors.
UrlAtoms == {"https", ":", "/", "api", "8080"}
UriAtoms == {"/", "api", ":", "?", "#"}
BaseURLs ==
  StringsUpTo(UrlAtoms, MaxLen)
  \cup {GoodURL, <<"badurl">>, GoodURL \o <<"/", "v1", "/">>,
        GoodURL \o <<":", "8080">>, GoodURL \o <<":", "api">>}
Credentials == {<<>>, ApiKey}

\* The clients the verbs are called on.
Clients == {NewClient(b, ApiKey).c : b \in {GoodURL, GoodURL \o <<"/", "v1", "/">>}}

\* The URIs handed to the verbs and to the request builders.
TargetURIs == {ApiFoo, GoodURL, <<"foo", "?", "q">>, <<":">>}
\* The URIs handed to GetQuery.
QueryURIs ==
  TargetURIs
  \cup StringsUpTo(UriAtoms, MaxUriLen)
  \cup {<<>>, <<"foo">>, <<"/", "/", "other.example.com", "/", "x">>, <<"?", "q">>,
        <<"#", "frag">>, ApiFoo \o <<"?">>, <<":">>, <<"8080", ":", "api">>,
        <<"mailto", ":", "user">>, <<"/", "/", "h", ":", "x">>}

Methods == {"GET", "BAD METHOD"}
Dests == {NilIface, Ref(ResponseStruct(<<>>))}
Payloads == {PostData(<<"new_name">>), Chan}

EmptyMap == [k \in {} |-> <<>>]
EmptyForm == [Fields |-> EmptyMap, Files |-> EmptyMap]
Forms ==
  {[Fields |-> [name |-> <<"new_name">>], Files |-> EmptyMap],
   [Fields |-> EmptyMap, Files |-> [a |-> FileA]],
   [Fields |-> [name |-> <<"new_name">>], Files |-> [a |-> FileA, b |-> FileMissing]],
   [Fields |-> EmptyMap, Files |-> [a |-> Dir, b |-> FileMissing]],
   [Fields |-> EmptyMap, Files |-> [a |-> FileMissing, b |-> FileGone]]}

\* The orders in which a range loop may visit the keys of map m.
Orders(m) ==
  {o \in [1..Cardinality(DOMAIN m) -> DOMAIN m] : \A i, j \in DOMAIN o : i # j => o[i] # o[j]}

\* ----------------------------------------------------------------- state
VARIABLES
  client,     \* the *Client the caller holds (NilClient: none)
  req,        \* the *http.Request the caller holds (NilRequest: none)
  call,       \* the last call made and its arguments
  ret,        \* what that call returned
  sent,       \* the exchanges that call made with the transport, in order
  openFiles   \* the paths of the file handles that are open

vars == <<client, req, call, ret, sent, openFiles>>

NoCall ==
  [op |-> "none", uri |-> <<>>, method |-> "", data |-> NilIface, response |-> NilIface,
   mpf |-> EmptyForm, surl |-> <<>>, apiKey |-> <<>>, username |-> <<>>, password |-> <<>>]
NoRet ==
  [err |-> NoErr, query |-> <<>>, res |-> NilResponse, dest |-> NilIface, opened |-> <<>>]

Idle == call.op = "none"

Init ==
  /\ client \in Clients
  /\ req = NilRequest
  /\ call = NoCall
  /\ ret = NoRet
  /\ sent = <<>>
  /\ openFiles = <<>>

InitNew ==
  /\ client = NilClient
  /\ req = NilRequest
  /\ call = NoCall
  /\ ret = NoRet
  /\ sent = <<>>
  /\ openFiles = <<>>

\* ---------------------------------------------------------------- actions
\* The handles among opened (by position) that were left open, as paths.
Leaked(opened, leaked) ==
  [i \in 1..Cardinality(leaked) |->
     opened[CHOOSE k \in leaked : Cardinality({l \in leaked : l < k}) = i - 1]]

\* The caller receives n from a constructor.
Constructed(c, n) ==
  /\ client' = n.c
  /\ call' = c
  /\ ret' = [NoRet EXCEPT !.err = n.err]
  /\ sent' = <<>>
  /\ UNCHANGED <<req, openFiles>>

CallNewClient ==
  /\ Idle
  /\ \E surl \in BaseURLs, apiKey \in Credentials :
       Constructed([NoCall EXCEPT !.op = "NewClient", !.surl = surl, !.apiKey = apiKey],
                   NewClient(surl, apiKey))

CallNewBasicAuthClient ==
  /\ Idle
  /\ \E surl \in BaseURLs, username \in {<<>>, User}, password \in {<<>>, Pass} :
       Constructed([NoCall EXCEPT !.op = "NewBasicAuthClient", !.surl = surl,
                                  !.username = username, !.password = password],
                   NewBasicAuthClient(surl, username, password))

\* The caller receives q from GetQuery.
Queried(uri, q) ==
  /\ call' = [NoCall EXCEPT !.op = "GetQuery", !.uri = uri]
  /\ ret' = [NoRet EXCEPT !.err = q.err, !.query = q.query]
  /\ sent' = <<>>
  /\ UNCHANGED <<client, req, openFiles>>

CallGetQuery ==
  /\ Idle
  /\ \E uri \in QueryURIs : Queried(uri, GetQuery(client, uri))

\* The caller receives m from a request builder and keeps the request.
Built(c, m, opened, leaked) ==
  /\ req' = m.req
  /\ call' = c
  /\ ret' = [NoRet EXCEPT !.err = m.err, !.opened = opened]
  /\ sent' = <<>>
  /\ openFiles' = openFiles \o Leaked(opened, leaked)
  /\ UNCHANGED client

CallMakeRequest ==
  /\ Idle
  /\ \E method \in Methods, uri \in TargetURIs :
       Built([NoCall EXCEPT !.op = "MakeRequest", !.method = method, !.uri = uri],
             MakeRequest(client, method, uri), <<>>, {})

BuiltMultipart(c, m) == Built(c, m, m.opened, m.leaked)

CallMakeMultipartRequest ==
  /\ Idle
  /\ \E method \in {"POST"}, uri \in TargetURIs, mpf \in Forms :
       \E forder \in Orders(mpf.Files), vorder \in Orders(mpf.Fields) :
         BuiltMultipart([NoCall EXCEPT !.op = "MakeMultipartRequest", !.method = method,
                                       !.uri = uri, !.mpf = mpf],
                        MakeMultipartRequest(client, method, uri, mpf, forder, vorder))

\* The outcomes the transport may give a call whose request was built with error
\* err: a call that failed before reaching the transport uses none of them, and
\* one stands for all.
Consulted(err) ==
  IF err = NoErr THEN Outcomes ELSE {CHOOSE o \in Outcomes : o.err # NoErr}

\* The caller receives g from GetResponse on the request it holds.
Responded(g) ==
  /\ client' = g.c
  /\ req' = g.r
  /\ call' = [NoCall EXCEPT !.op = "GetResponse"]
  /\ ret' = [NoRet EXCEPT !.err = g.err, !.res = g.res]
  /\ sent' = g.sent
  /\ UNCHANGED openFiles

CallGetResponse ==
  /\ Idle
  /\ req # NilRequest
  /\ \E o \in ExchangeOutcomes : Responded(GetResponse(client, req, o))

\* The caller receives v from a verb.
Returned(c, v, opened, leaked) ==
  /\ client' = v.c
  /\ call' = c
  /\ ret' = [NoRet EXCEPT !.err = v.err, !.dest = v.response.elem, !.opened = opened]
  /\ sent' = v.sent
  /\ openFiles' = openFiles \o Leaked(opened, leaked)
  /\ UNCHANGED req

CallReadJson ==
  /\ Idle
  /\ \E uri \in TargetURIs, response \in Dests :
       \E o \in Consulted(MakeRequest(client, "GET", uri).err) :
         Returned([NoCall EXCEPT !.op = "ReadJson", !.uri = uri, !.response = response],
                  ReadJson(client, uri, response, o), <<>>, {})

CallDeleteJson ==
  /\ Idle
  /\ \E uri \in TargetURIs, response \in Dests :
       \E o \in Consulted(MakeRequest(client, "DELETE", uri).err) :
         Returned([NoCall EXCEPT !.op = "DeleteJson", !.uri = uri, !.response = response],
                  DeleteJson(client, uri, response, o), <<>>, {})

CallCreateJson ==
  /\ Idle
  /\ \E uri \in TargetURIs, data \in Payloads, response \in Dests :
       \E o \in Consulted(MakeRequest(client, "POST", uri).err \o Marshal(data).err) :
         Returned([NoCall EXCEPT !.op = "CreateJson", !.uri = uri, !.data = data,
                                 !.response = response],
                  CreateJson(client, uri, data, response, o), <<>>, {})

CallUpdateJson ==
  /\ Idle
  /\ \E uri \in TargetURIs, data \in Payloads, response \in Dests :
       \E o \in Consulted(MakeRequest(client, "PUT", uri).err \o Marshal(data).err) :
         Returned([NoCall EXCEPT !.op = "UpdateJson", !.uri = uri, !.data = data,
                                 !.response = response],
                  UpdateJson(client, uri, data, response, o), <<>>, {})

ReturnedMultipart(c, v) == Returned(c, v, v.opened, v.leaked)

CallPostMultipartJson ==
  /\ Idle
  /\ \E uri \in TargetURIs, mpf \in Forms, data \in Dests :
       \E forder \in Orders(mpf.Files), vorder \in Orders(mpf.Fields) :
         \E o \in Consulted(MakeMultipartRequest(client, "POST", uri, mpf, forder,
                                                  vorder).err) :
           ReturnedMultipart([NoCall EXCEPT !.op = "PostMultipartJson", !.uri = uri,
                                            !.response = data, !.mpf = mpf],
                             PostMultipartJson(client, uri, mpf, data, forder, vorder, o))

\* The caller goes on to its next statement; what the call returned goes out
\* of scope.
Continue ==
  /\ ~Idle
  /\ call' = NoCall
  /\ ret' = NoRet
  /\ sent' = <<>>
  /\ UNCHANGED <<client, req, openFiles>>

Next ==
  \/ Continue
  \/ CallGetQuery
  \/ CallMakeRequest
  \/ CallMakeMultipartRequest
  \/ CallGetResponse
  \/ CallReadJson
  \/ CallDeleteJson
  \/ CallCreateJson
  \/ CallUpdateJson
  \/ CallPostMultipartJson

Spec == Init /\ [][Next]_vars

NextNew ==
  \/ CallNewClient
  \/ CallNewBasicAuthClient

SpecNew == InitNew /\ [][NextNew]_vars

\* ----------------------------------------------------------- properties
JsonVerbs == {"ReadJson", "DeleteJson", "CreateJson", "UpdateJson"}
Verbs == JsonVerbs \cup {"PostMultipartJson"}
MultipartOps == {"MakeMultipartRequest", "PostMultipartJson"}
Constructors == {"NewClient", "NewBasicAuthClient"}

\* The last call made an exchange and the transport returned a response.
Exchanged == sent # <<>> /\ sent[1].err = NoErr

\* The text begins with a scheme: letters, then a colon.
HasScheme(u) ==
  \E i \in 2..Len(u) : u[i] = ":" /\ \A j \in 1..(i-1) : IsLetters(u[j])

\* A URI the client accepts: relative, and parsed without error.
UriOk(u) == ~HasScheme(u) /\ Parse(u).err = NoErr

\* RFC 3986 reference resolution on the text of base b (scheme://host/path, no
\* query or fragment) and of relative reference u without dot segments.
AfterAuthority(b) ==
  LET slashes == {i \in 5..Len(b) : b[i] = "/"}
  IN IF slashes = {} THEN 0 ELSE CHOOSE i \in slashes : \A j \in slashes : i <= j
Origin(b) == IF AfterAuthority(b) = 0 THEN b ELSE Before(b, AfterAuthority(b))
BasePath(b) == IF AfterAuthority(b) = 0 THEN <<>> ELSE SubSeq(b, AfterAuthority(b), Len(b))
DirOf(path) == IF path = <<>> THEN <<"/">> ELSE SubSeq(path, 1, LastIndex(path, "/"))
\* An empty fragment is not written.
Norm(u) == IF u # <<>> /\ Index(u, "#") = Len(u) THEN Before(u, Len(u)) ELSE u
Expected(b, u) ==
  LET n == Norm(u)
  IN IF n = <<>> \/ n[1] \in {"?", "#"} THEN b \o n
     ELSE IF n[1] # "/" THEN Origin(b) \o DirOf(BasePath(b)) \o n
     ELSE IF Len(n) = 1 \/ n[2] # "/" \/ HasPrefix(n, <<"/", "/", "/">>) THEN Origin(b) \o n
     ELSE IF Len(n) = 2 \/ n[3] \in {"?", "#"} THEN b \o SubSeq(n, 3, Len(n))
     ELSE SubSeq(b, 1, Index(b, ":")) \o n

MethodOf(op) ==
  CASE op = "ReadJson" -> "GET"
    [] op = "DeleteJson" -> "DELETE"
    [] op = "UpdateJson" -> "PUT"
    [] OTHER -> "POST"

\* The paths of form mpf that cannot be opened.
Unopenable(mpf) == {mpf.Files[f] : f \in {g \in DOMAIN mpf.Files : mpf.Files[g] \notin Openable}}

\* Body decodes into destination dest (nil, or a pointer to a Response).
Decodable(body, dest) ==
  Valid(body) /\ (dest # NilIface => body[1] \in {"{", "null"})

\* C1: a JSON verb called with a nil destination whose exchange returned a
\* response returns no error, whatever the body, and leaves LastBody as it was.
C1_NilDestinationSkipsBody ==
  [][(call'.op \in JsonVerbs /\ call'.response = NilIface
        /\ sent' # <<>> /\ sent'[1].err = NoErr)
       => (ret'.err = NoErr /\ client'.LastBody = client.LastBody)]_vars

\* C2: a verb call or GetResponse makes at most one exchange; when that exchange
\* fails the call returns the transport's error itself; and a verb called with a
\* nil destination whose request can be built still makes the exchange.
C2_TransportErrorSurfaces ==
  call.op \in Verbs \cup {"GetResponse"} =>
    /\ Len(sent) <= 1
    /\ (sent # <<>> /\ sent[1].err # NoErr => ret.err = sent[1].err)
    /\ (/\ call.op \in Verbs
        /\ call.response = NilIface
        /\ UriOk(call.uri)
        /\ call.data.kind # "chan"
        /\ \A f \in DOMAIN call.mpf.Files : call.mpf.Files[f] \in Readable
        => Len(sent) = 1)

C2_Witness ==
  /\ call.op = "ReadJson"
  /\ call.response = NilIface
  /\ Len(sent) = 1
  /\ sent[1].err = NetErr
  /\ ret.err = NetErr

\* C3: CreateJson and UpdateJson submit the JSON serialization of the payload
\* with Content-Type application/json, and make no exchange when the payload
\* cannot be serialized.
C3_JsonPayloadSubmitted ==
  call.op \in {"CreateJson", "UpdateJson"} =>
    /\ (call.data.kind = "chan" => ret.err # NoErr /\ sent = <<>>)
    /\ (sent # <<>> =>
          /\ Values(sent[1].req.Header, "Content-Type") = << <<"application/json">> >>
          /\ sent[1].req.Body =
               BytesBody(<<"{", Quote, "Name", Quote, ":", Quote>> \o call.data.Name
                         \o <<Quote, "}">>))

\* C4: every request handed to the transport carries the API key exactly once
\* under the header name Authorization.
C4_TokenUnderAuthorization ==
  \A i \in 1..Len(sent) :
    Values(sent[i].req.Header, "Authorization") = <<TokenValue(client.apiKey)>>

C7_ErrorNamesUnopenablePath ==
  call.op \in MultipartOps /\ Unopenable(call.mpf) # {} =>
    /\ \A path \in Unopenable(call.mpf) : Contains(ret.err, path)
    /\ sent = <<>>
    /\ openFiles = <<>>

\* C7 amended: a multipart call leaves no file handle open; when its form names
\* a path that cannot be opened it fails without an exchange and leaves the
\* client as it was; and when the URI is accepted and every other file of the
\* form can be read, the error names a path of the form that cannot be opened.
C7_UnopenableFileFailsEarly ==
  [][call'.op \in MultipartOps =>
       /\ openFiles' = <<>>
       /\ (Unopenable(call'.mpf) # {} =>
             /\ ret'.err # NoErr
             /\ sent' = <<>>
             /\ client' = client
             /\ (/\ UriOk(call'.uri)
                 /\ \A f \in DOMAIN call'.mpf.Files :
                      call'.mpf.Files[f] \in Readable \cup Unopenable(call'.mpf)
                 => \E path \in Unopenable(call'.mpf) : Contains(ret'.err, path)))]_vars

C7_Witness ==
  /\ call.op = "PostMultipartJson"
  /\ UriOk(call.uri)
  /\ ret.opened = <<FileA>>
  /\ Contains(ret.err, FileMissing)
  /\ sent = <<>>
  /\ openFiles = <<>>
  /\ client.LastResponse # NilResponse

\* C8 as stated: after a verb call with a non-nil destination whose exchange
\* returned a response, LastBody holds the full response body, and a body that
\* does not decode into the destination gives an error carrying that body.
C8_FullBodyKept ==
  call.op \in Verbs /\ call.response # NilIface /\ Exchanged =>
    /\ client.LastBody = Bytes(sent[1].res.Body)
    /\ (~Decodable(sent[1].res.Body, call.response)
          => ret.err = <<"Invalid JSON: ">> \o sent[1].res.Body)

\* C8 amended: as stated when the body is read to its end; when reading the body
\* fails the call returns the read error and LastBody holds the bytes read
\* before the failure.
C8_BodyKeptAsRead ==
  call.op \in Verbs /\ call.response # NilIface /\ Exchanged =>
    /\ ~sent[1].readErr =>
         /\ client.LastBody = Bytes(sent[1].res.Body)
         /\ (~Decodable(sent[1].res.Body, call.response)
               => ret.err = <<"Invalid JSON: ">> \o sent[1].res.Body)
         /\ (Decodable(sent[1].res.Body, call.response) => ret.err = NoErr)
    /\ sent[1].readErr =>
         /\ client.LastBody = Bytes(SubSeq(sent[1].res.Body, 1, sent[1].readN))
         /\ ret.err = <<"unexpected EOF">>

C8_Witness ==
  /\ call.op = "ReadJson"
  /\ call.response # NilIface
  /\ Exchanged
  /\ ~sent[1].readErr
  /\ sent[1].res.Body = BodyNotFound
  /\ ret.err = <<"Invalid JSON: ">> \o BodyNotFound
  /\ client.LastBody = Bytes(BodyNotFound)

\* C9: a verb call whose URI is not accepted returns the resolution error and
\* makes no exchange; any verb call makes at most one exchange, to the URI
\* resolved against the base URL and with the verb's method; and the
\* destination changes only after an exchange that returned a response.
C9_OneShotVerb ==
  call.op \in Verbs =>
    /\ (~UriOk(call.uri) =>
          /\ sent = <<>>
          /\ ret.err = IF Parse(call.uri).err # NoErr THEN Parse(call.uri).err
                       ELSE <<"URI is not absolute">>)
    /\ Len(sent) <= 1
    /\ (sent # <<>> =>
          /\ String(sent[1].req.URL) = Expected(String(client.url), call.uri)
          /\ sent[1].req.Method = MethodOf(call.op))
    /\ (ret.dest # call.response => Exchanged)

C9_Witness ==
  /\ call.op = "UpdateJson"
  /\ Exchanged
  /\ sent[1].req.Method = "PUT"
  /\ String(sent[1].req.URL) = GoodURL \o <<"/", "v1", "/", "foo", "?", "q">>
  /\ ret.dest = Ref(ResponseStruct(<<"bar">>))

\* C10: a step whose exchange returned a response makes it LastResponse, and,
\* in a verb, makes the bytes read from its body LastBody (a verb with a nil
\* destination may also leave LastBody alone); GetResponse leaves LastBody alone;
\* any other step leaves LastResponse and LastBody as they were.
C10_LastFieldsTrackExchanges ==
  [][LET ok == sent' # <<>> /\ sent'[1].err = NoErr
         read == Bytes(SubSeq(sent'[1].res.Body, 1, sent'[1].readN))
     IN /\ ok => client'.LastResponse = sent'[1].res
        /\ ok /\ call'.op \in Verbs /\ call'.response # NilIface
             => client'.LastBody = read
        /\ ok /\ call'.op \in Verbs /\ call'.response = NilIface
             => client'.LastBody \in {read, client.LastBody}
        /\ ok /\ call'.op \notin Verbs => client'.LastBody = client.LastBody
        /\ ~ok => /\ client'.LastResponse = client.LastResponse
                  /\ client'.LastBody = client.LastBody]_vars

C10_Witness ==
  /\ call.op = "GetResponse"
  /\ sent # <<>>
  /\ sent[1].err # NoErr
  /\ client.LastResponse # NilResponse
  /\ client.LastBody # NilBytes
  /\ client.LastBody # Bytes(client.LastResponse.Body)

====
